---- MODULE Spec2Model ----
(***************************************************************************)
(* Search page objects of the e2e suite (BaseSearchPage and                *)
(* AdminUserSearchPage) driving the Admin User Management page.            *)
(*                                                                         *)
(* A string is a sequence of lexical pieces: "display", "DISPLAY", ":",    *)
(* " ", "none", ... .  No piece is a substring of a concatenation of       *)
(* other pieces, so String.includes is the search for a contiguous         *)
(* subsequence, toLowerCase maps piece by piece and trim strips the        *)
(* whitespace pieces at both ends.                                         *)
(***************************************************************************)
EXTENDS Integers, Sequences, FiniteSets, TLC

VARIABLES
  panelCount,     \* number of elements matching '.oxd-table-filter-area'
  panelStyle,     \* inline style attribute of the panel: [has, text]
  toggleVisible,  \* '.oxd-table-filter-area-toggle' is visible
  form,           \* values of the search form fields
  fieldErr,       \* error region under Employee Name / Username: [visible, text]
  suggestion,     \* autocomplete option: "none", "pending" or "shown"
  tableBody,      \* '.oxd-table-body': "absent", "hidden" or "visible"
  rows,           \* '.oxd-table-row' elements in the table body, in order
  noRecCell,      \* in-table 'No Records Found' cell: [visible, text]
  toast,          \* transient notification: [visible, error, text]
  pending,        \* search request in flight: [has, q]
  dash,           \* dashboard elements: [title, userMenu, cards]
  url,            \* page.url(), as a sequence of pieces
  switch,         \* the checkbox of a boolean field: [present, checked]
  attrs,          \* name and placeholder attributes of the text inputs
  login,          \* login page: [username, password, state, alert, fieldErrs]
  pc,             \* position of the test flow inside the current call
  cur,            \* the current call: [op, crit, arg]
  loc,            \* locals of the current call
  calls,          \* names of the calls issued since the page was loaded
  obs,            \* what happened during the current call
  ret             \* what the last finished page-object call gave back

page == <<panelCount, panelStyle, toggleVisible, form, fieldErr, suggestion,
          tableBody, rows, noRecCell, toast, pending, dash, login, url,
          switch, attrs>>
flow == <<pc, cur, loc, calls, obs>>
vars == <<page, flow, ret>>

-----------------------------------------------------------------------------
(* Bounds *)

MaxStyleLen == 4
MaxCalls == 2
MaxRows == 2
MaxCards == 2
MaxPathLen == 3

\* TIMEOUTS, in milliseconds
ELEMENT_WAIT == 10000
SEARCH_RESULTS == 3000

-----------------------------------------------------------------------------
(* Strings *)

SeqsUpTo(S, n) == UNION {[1..k -> S] : k \in 0..n}

Includes(s, p) ==
  \E i \in 0..(Len(s) - Len(p)) : \A j \in 1..Len(p) : s[i + j] = p[j]

LowerPiece(t) ==
  CASE t = "DISPLAY" -> "display"
    [] t = "NONE" -> "none"
    [] t = "No Records Found" -> "no records found"
    [] t = "NO RECORDS FOUND" -> "no records found"
    [] t = "Invalid" -> "invalid"
    [] t = "Admin" -> "admin"
    [] t = "Username" -> "username"
    [] t = "Employee Name" -> "employee name"
    [] OTHER -> t

ToLowerCase(s) == [i \in 1..Len(s) |-> LowerPiece(s[i])]

IsSpace(t) == t = " "

Trim(s) ==
  LET keep == {i \in 1..Len(s) : ~IsSpace(s[i])}
      Min(S) == CHOOSE x \in S : \A y \in S : x <= y
      Max(S) == CHOOSE x \in S : \A y \in S : x >= y
  IN IF keep = {} THEN <<>> ELSE SubSeq(s, Min(keep), Max(keep))

-----------------------------------------------------------------------------
(* Search panel *)

StylePieces == {"display", "DISPLAY", ":", " ", "none", "NONE", "x"}

NoStyle == [has |-> FALSE, text |-> <<>>]
StyleOf(s) == [has |-> TRUE, text |-> s]

\* more than one match makes locator.getAttribute throw (strict mode)
PanelCounts == {0, 1, 2}

DisplayNone == <<"display", ":", "none">>
DisplaySpaceNone == <<"display", ":", " ", "none">>

hasDisplayNone_OnlyCompact(style) ==
  Includes(ToLowerCase(style), DisplayNone)

hasDisplayNone(style) ==
  \/ Includes(ToLowerCase(style), DisplayNone)
  \/ Includes(ToLowerCase(style), DisplaySpaceNone)

isSearchPanelVisible ==
  IF panelCount = 0 THEN FALSE
  ELSE IF panelCount > 1 THEN FALSE            \* getAttribute throws: catch
  ELSE IF ~panelStyle.has \/ panelStyle.text = <<>> THEN TRUE   \* !style
  ELSE ~hasDisplayNone(panelStyle.text)

\* the variant of unnamed/part_005: one spelling of the declaration
Part005_isSearchPanelVisible ==
  IF panelCount = 0 THEN FALSE
  ELSE IF panelCount > 1 THEN FALSE            \* getAttribute throws: catch
  ELSE IF ~panelStyle.has \/ panelStyle.text = <<>> THEN TRUE   \* !style
  ELSE ~hasDisplayNone_OnlyCompact(panelStyle.text)

isSearchPanelHidden_FalseOnError ==
  IF panelCount = 0 THEN TRUE
  ELSE IF panelCount > 1 THEN FALSE
  ELSE IF ~panelStyle.has \/ panelStyle.text = <<>> THEN FALSE
  ELSE hasDisplayNone(panelStyle.text)

isSearchPanelHidden ==
  IF panelCount = 0 THEN TRUE
  ELSE IF panelCount > 1 THEN TRUE             \* getAttribute throws: catch
  ELSE IF ~panelStyle.has \/ panelStyle.text = <<>> THEN FALSE   \* !style
  ELSE hasDisplayNone(panelStyle.text)

-----------------------------------------------------------------------------
(* The page: form, table, notifications *)

Str(t) == [has |-> TRUE, text |-> t]
Undef == [has |-> FALSE, text |-> <<>>]

\* JavaScript truthiness of an optional string: defined and not ''
Truthy_Defined(v) == v.has

Truthy(v) == v.has /\ v.text # <<>>

Hidden == [visible |-> FALSE, text |-> <<>>]
Shown(t) == [visible |-> TRUE, text |-> t]

NoToast == [visible |-> FALSE, error |-> FALSE, text |-> <<>>]
Toast(e, t) == [visible |-> TRUE, error |-> e, text |-> t]

NoRequest == [has |-> FALSE, q |-> <<>>]

EmptyForm ==
  [employeeName |-> <<>>, selected |-> FALSE, username |-> <<>>,
   userRole |-> <<>>, status |-> <<>>]

\* a table row: cells 0..5 of the source are positions 1..6 here
Row(u, r, e, s) == << <<>>, u, r, e, s, <<>> >>

DB ==
  << Row(<<"Admin">>, <<"Admin">>, <<" ", "Admin User", " ">>, <<"Enabled">>),
     Row(<<"alice">>, <<"ESS">>, <<"Alice">>, <<"Enabled">>) >>

RoleOptions == {<<"Admin">>, <<"ESS">>, <<"Manager">>}
StatusOptions == {<<"Enabled">>, <<"Disabled">>}

\* names for which the application offers an autocomplete option
HasSuggestion(t) == t \in {<<"Admin">>, <<"Admin User">>}

Matches(q, row) ==
  /\ q.username = <<>> \/ ToLowerCase(q.username) = ToLowerCase(Trim(row[2]))
  /\ q.userRole = <<>> \/ q.userRole = Trim(row[3])
  /\ q.employeeName = <<>> \/ q.employeeName = Trim(row[4])
  /\ q.status = <<>> \/ q.status = Trim(row[5])

Matching(q) == SelectSeq(DB, LAMBDA row : Matches(q, row))

\* the application rejects an employee name that was typed but not picked
InvalidForm == form.employeeName # <<>> /\ ~form.selected

\* a display none declaration as the browser reads it: any letter case, any
\* whitespace around the colon
DeclaresDisplayNone(text) ==
  \E i \in 1..Len(text) :
    /\ LowerPiece(text[i]) = "display"
    /\ \E j \in (i + 1)..Len(text) :
         /\ text[j] = ":"
         /\ \A k \in (i + 1)..(j - 1) : IsSpace(text[k])
         /\ \E m \in (j + 1)..Len(text) :
              /\ LowerPiece(text[m]) = "none"
              /\ \A k \in (j + 1)..(m - 1) : IsSpace(text[k])

\* what the browser renders: inline display none hides the filter area and
\* with it every field and the Search and Reset buttons
PanelShown == panelCount > 0 /\ ~DeclaresDisplayNone(panelStyle.text)

\* the dashboard before anything of it is rendered, and after the browser has
\* gone on to the Admin page: the top bar stays, the cards are gone
NoDashboard == [title |-> FALSE, userMenu |-> FALSE, cards |-> <<>>]
LeftDashboard == [title |-> TRUE, userMenu |-> TRUE, cards |-> <<>>]

\* the text inputs of the search form and the labels the page gives them
TextFields == {"employeeName", "username"}

FieldLabels == [employeeName |-> <<"Employee Name">>, username |-> <<"Username">>]

NoSwitch == [present |-> FALSE, checked |-> FALSE]

NoAttrs == [f \in TextFields |-> [name |-> <<>>, placeholder |-> <<>>]]

\* URLS, behind the base URL
BaseUrl == <<"https://host", "/", "web/index.php", "/">>
AdminUserManagementUrl == BaseUrl \o <<"admin/viewSystemUsers">>
DashboardUrl == BaseUrl \o <<"dashboard", "/", "index">>
LoginUrl == BaseUrl \o <<"auth", "/", "login">>

\* the login page as navigateToLogin finds it, and once the session is open
LoginForm ==
  [username |-> <<>>, password |-> <<>>, state |-> "form",
   alert |-> Hidden, fieldErrs |-> <<>>]
LeftLogin == [LoginForm EXCEPT !.state = "dashboard"]

-----------------------------------------------------------------------------
(* Page-object reads *)

NoRecordsLower == <<"no records found">>
NoRecordsExact == <<"No Records Found">>

isToastMessageVisible == toast.visible

getToastMessage == IF isToastMessageVisible THEN toast.text ELSE <<>>

isErrorToastVisible == toast.visible /\ toast.error

hasNoRecordsInToast_CaseSensitive ==
  Includes(getToastMessage, NoRecordsExact)

hasNoRecordsInToast ==
  Includes(ToLowerCase(getToastMessage), NoRecordsLower)

isNoRecordsFoundDisplayed == noRecCell.visible \/ hasNoRecordsInToast

hasNoRecordsFound == isNoRecordsFoundDisplayed

hasSearchResults == ~isNoRecordsFoundDisplayed /\ Len(rows) > 0

Base_hasSearchResults == tableBody = "visible" /\ ~noRecCell.visible

Base_hasNoRecordsFound == noRecCell.visible \/ hasNoRecordsInToast

getNoRecordsFoundMessage ==
  LET fromCell == IF noRecCell.visible /\ Includes(noRecCell.text, NoRecordsExact)
                  THEN Trim(noRecCell.text) ELSE <<>>
  IN IF fromCell = <<>> /\ isToastMessageVisible /\ hasNoRecordsInToast
     THEN Trim(getToastMessage)
     ELSE fromCell

hasFieldError(f) == fieldErr[f].visible

hasEmployeeNameError == hasFieldError("employeeName")

hasUsernameError == hasFieldError("username")

hasAnyValidationError ==
  hasUsernameError \/ hasEmployeeNameError \/ isErrorToastVisible

\* every input[type="text"] of the page holds nothing but whitespace
verifyDefaultSearchState ==
  \A f \in {"employeeName", "username"} : Trim(form[f]) = <<>>

getSearchResultsCount_VisibleBodyOnly ==
  IF noRecCell.visible \/ tableBody # "visible" THEN 0 ELSE Len(rows)

getSearchResultsCount == IF noRecCell.visible THEN 0 ELSE Len(rows)

getSearchResultRowCount == Len(rows)

getSearchResults_FromCell0 ==
  [i \in 1..Len(rows) |->
     [username |-> Trim(rows[i][1]), userRole |-> Trim(rows[i][2]),
      employeeName |-> Trim(rows[i][3]), status |-> Trim(rows[i][4])]]

getSearchResults ==
  [i \in 1..Len(rows) |->
     [username |-> Trim(rows[i][2]), userRole |-> Trim(rows[i][3]),
      employeeName |-> Trim(rows[i][4]), status |-> Trim(rows[i][5])]]

getFieldErrorMessage(f) == IF fieldErr[f].visible THEN fieldErr[f].text ELSE <<>>

getErrorToastMessage == IF isErrorToastVisible THEN toast.text ELSE <<>>

\* if (message && message.trim().length > 0) errors.push(message.trim())
PushTrimmed(errors, message) ==
  IF Trim(message) # <<>> THEN Append(errors, Trim(message)) ELSE errors

getAllValidationErrors ==
  LET afterUsername == PushTrimmed(<<>>, getFieldErrorMessage("username"))
      afterFields == PushTrimmed(afterUsername, getFieldErrorMessage("employeeName"))
  IN IF isErrorToastVisible
     THEN PushTrimmed(afterFields, getErrorToastMessage)
     ELSE afterFields

validateSearchCriteria(criteria) ==
  \/ Truthy(criteria.employeeName) /\ hasEmployeeNameError
  \/ Truthy(criteria.username) /\ hasUsernameError

-----------------------------------------------------------------------------
(* The application under test: it reacts to the form on its own schedule *)

\* field validation catches up with the Employee Name input
AppValidate ==
  /\ fieldErr["employeeName"].visible # InvalidForm
  /\ fieldErr' = [fieldErr EXCEPT !["employeeName"] =
                    IF InvalidForm THEN Shown(<<"Invalid">>) ELSE Hidden]
  /\ UNCHANGED <<login, dash, url, switch, attrs, panelCount, panelStyle, toggleVisible, form, suggestion,
                 tableBody, rows, noRecCell, toast, pending, flow, ret>>

\* the autocomplete option for the typed name is rendered
AppSuggest ==
  /\ suggestion = "pending"
  /\ suggestion' = "shown"
  /\ UNCHANGED <<login, dash, url, switch, attrs, panelCount, panelStyle, toggleVisible, form, fieldErr,
                 tableBody, rows, noRecCell, toast, pending, flow, ret>>

\* the table is replaced by a loading indicator while the request runs
AppLoading ==
  /\ pending.has
  /\ tableBody = "visible" \/ noRecCell.visible
  /\ tableBody' = "hidden"
  /\ rows' = <<>>
  /\ noRecCell' = Hidden
  /\ UNCHANGED <<login, dash, url, switch, attrs, panelCount, panelStyle, toggleVisible, form, fieldErr,
                 suggestion, toast, pending, flow, ret>>

\* the response is rendered: the matching rows, or a no-records signal in the
\* table, in a notification, or in both
AppRespond ==
  /\ pending.has
  /\ pending' = NoRequest
  /\ rows' = Matching(pending.q)
  /\ IF Matching(pending.q) # <<>>
     THEN /\ tableBody' = "visible"
          /\ noRecCell' = Hidden
          /\ toast' = toast
     ELSE \E sig \in {"cell", "toast", "both"} :
          /\ tableBody' = IF sig = "toast" THEN "hidden" ELSE "visible"
          /\ noRecCell' = IF sig = "toast" THEN Hidden ELSE Shown(NoRecordsExact)
          /\ toast' = IF sig = "cell" THEN toast ELSE Toast(FALSE, NoRecordsExact)
  /\ UNCHANGED <<login, dash, url, switch, attrs, panelCount, panelStyle, toggleVisible, form, fieldErr,
                 suggestion, flow, ret>>

\* a notification disappears after a while
ToastExpire ==
  /\ toast.visible
  /\ toast' = NoToast
  /\ UNCHANGED <<login, dash, url, switch, attrs, panelCount, panelStyle, toggleVisible, form, fieldErr,
                 suggestion, tableBody, rows, noRecCell, pending, flow, ret>>

-----------------------------------------------------------------------------
(* The legs of the waits raced after a submission *)

Leg(a, t) == [awaits |-> a, timeout |-> t]

\* BaseSearchPage.waitForSearchResults
SearchRaceLegs ==
  << Leg("table", SEARCH_RESULTS), Leg("noRecords", SEARCH_RESULTS) >>

\* AdminUserSearchPage.waitForAdminSearchResults: waitForToastMessage passes
\* no timeout, so waitForElement's default applies to its leg
AdminSearchRaceLegs ==
  << Leg("table", SEARCH_RESULTS), Leg("noRecords", SEARCH_RESULTS),
     Leg("toast", ELEMENT_WAIT) >>

-----------------------------------------------------------------------------
(* The test flow: one call at a time, one step per awaited action *)

Crit(e, u, r, s) == [employeeName |-> e, username |-> u, userRole |-> r, status |-> s]
NoCrit == Crit(Undef, Undef, Undef, Undef)

CriteriaInputs ==
  { Crit(Undef, Str(<<"Admin">>), Undef, Undef),
    Crit(Undef, Str(<<"nonexistentuser">>), Undef, Undef),
    Crit(Undef, Str(<<>>), Undef, Undef),
    Crit(Str(<<"NonExistent">>), Undef, Undef, Undef),
    Crit(Str(<<"Admin">>), Undef, Undef, Undef),
    Crit(Undef, Str(<<"Admin">>), Str(<<"ESS">>), Undef),
    Crit(Undef, Undef, Undef, Str(<<"Enabled">>)) }

UsernameInputs == {<<"Admin">>, <<"nonexistentuser">>}
EmployeeNameInputs == {<<"NonExistent">>, <<"Admin">>}

\* arguments of the generic field helpers
NoArg == [field |-> <<>>, value |-> <<>>, enabled |-> FALSE]

NoCall == [op |-> "none", crit |-> NoCrit, arg |-> NoArg]
NoLoc == [b1 |-> FALSE, legs |-> <<>>]
NoObs ==
  [clicked |-> FALSE, validated |-> FALSE, errAtCheck |-> FALSE,
   timedOut |-> FALSE]
NoRet == [op |-> "none", status |-> "none", b |-> FALSE, msg |-> <<>>, n |-> 0, recs |-> <<>>]

Init ==
  /\ panelCount = 1
  /\ panelStyle = NoStyle
  /\ toggleVisible \in BOOLEAN
  /\ form = EmptyForm
  /\ fieldErr = [f \in {"employeeName", "username"} |-> Hidden]
  /\ suggestion = "none"
  /\ tableBody = "visible"
  /\ rows = DB
  /\ noRecCell = Hidden
  /\ toast = NoToast
  /\ pending = NoRequest
  /\ dash = LeftDashboard
  /\ login = LeftLogin
  /\ url = AdminUserManagementUrl
  /\ switch = NoSwitch
  /\ attrs = NoAttrs
  /\ pc = "idle"
  /\ cur = NoCall
  /\ loc = NoLoc
  /\ calls = <<>>
  /\ obs = NoObs
  /\ ret = NoRet

BeginWith(op, crit, arg, first) ==
  /\ pc = "idle"
  /\ Len(calls) < MaxCalls
  /\ cur' = [op |-> op, crit |-> crit, arg |-> arg]
  /\ calls' = Append(calls, op)
  /\ loc' = NoLoc
  /\ obs' = NoObs
  /\ pc' = first

Begin(op, crit, first) == BeginWith(op, crit, NoArg, first)

Finish(status, b, msg) ==
  /\ pc' = "idle"
  /\ ret' = [op |-> cur.op, status |-> status, b |-> b, msg |-> msg,
             n |-> 0, recs |-> <<>>]

\* a wait for a field or button of the hidden panel ends in a TimeoutError
Throw == Finish("thrown", FALSE, <<>>)

\* fillSearchCriteria / performSearch: the next field the criteria name
FillOrder == <<"fill_emp", "fill_user", "sel_role", "sel_status">>

Named(c, k) ==
  CASE k = 1 -> Truthy(c.employeeName)
    [] k = 2 -> Truthy(c.username)
    [] k = 3 -> Truthy(c.userRole)
    [] k = 4 -> Truthy(c.status)

AfterFills(op) ==
  CASE op = "performSearch" -> "click"
    [] op = "testResetSearchCriteria" -> "reset_click"
    [] OTHER -> "validation_wait"

NextFill_FirstFieldOnly(op, c, from) ==
  IF from = 1 THEN
    LET todo == {k \in 1..4 : Named(c, k)}
    IN IF todo = {} THEN AfterFills(op)
       ELSE FillOrder[CHOOSE k \in todo : \A m \in todo : k <= m]
  ELSE AfterFills(op)

NextFill(op, c, from) ==
  LET todo == {k \in from..4 : Named(c, k)}
  IN IF todo = {} THEN AfterFills(op)
     ELSE FillOrder[CHOOSE k \in todo : \A m \in todo : k <= m]

\* the call returns to its caller inside the page object, or to the test
ReturnFromSearch ==
  IF cur.op = "testInvalidUserName"
  THEN pc' = "tiu_has" /\ ret' = ret
  ELSE Finish("returned", FALSE, <<>>)

\* locator.waitFor({state: 'visible', timeout}) settles either way: the
\* element is visible and it resolves, or the timeout fires and it rejects
waitForElement_NoTimeout(visible) == visible

waitForElement(visible) == visible \/ ~visible

(* ---- calls the test can issue ---- *)

CallSearchUsers ==
  \E c \in CriteriaInputs :
    /\ Begin("searchUsers", c, NextFill("searchUsers", c, 1))
    /\ UNCHANGED <<page, ret>>

CallTestInvalidUserName ==
  \E u \in UsernameInputs :
    /\ Begin("testInvalidUserName", Crit(Undef, Str(u), Undef, Undef), "fill_user")
    /\ UNCHANGED <<page, ret>>

CallPerformSearch ==
  \E u \in UsernameInputs :
    /\ Begin("performSearch", Crit(Undef, Str(u), Undef, Undef), "fill_user")
    /\ UNCHANGED <<page, ret>>

CallFillEmployeeName ==
  \E e \in EmployeeNameInputs :
    /\ Begin("fillEmployeeName", Crit(Str(e), Undef, Undef, Undef), "fill_emp")
    /\ UNCHANGED <<page, ret>>

CallWaitForSearchResults ==
  /\ Begin("waitForSearchResults", NoCrit, "wfr_sleep")
  /\ UNCHANGED <<page, ret>>

CallTestToggleSearchPanel ==
  /\ Begin("testToggleSearchPanel", NoCrit, "tt_init")
  /\ UNCHANGED <<page, ret>>

CallResetSearchCriteria ==
  /\ Begin("resetSearchCriteria", NoCrit, "reset_click")
  /\ UNCHANGED <<page, ret>>

CallTestResetSearchCriteria ==
  /\ Begin("testResetSearchCriteria",
           Crit(Str(<<"Test Employee">>), Str(<<"testuser">>),
                Str(<<"Admin">>), Str(<<"Enabled">>)),
           "fill_emp")
  /\ UNCHANGED <<page, ret>>

CallWaitForAdminSearchResults ==
  /\ Begin("waitForAdminSearchResults", NoCrit, "wasr_sleep")
  /\ UNCHANGED <<page, ret>>

(* ---- toggleSearchPanel ---- *)

\* what the application does with a click on the toggle button
Flipped == IF PanelShown THEN StyleOf(DisplaySpaceNone) ELSE StyleOf(<<>>)

toggleSearchPanel_Unguarded == panelStyle' = Flipped

toggleSearchPanel ==
  IF toggleVisible THEN panelStyle' = Flipped ELSE panelStyle' = panelStyle

CallToggleSearchPanel ==
  /\ pc = "idle"
  /\ Len(calls) < MaxCalls
  /\ calls' = Append(calls, "toggleSearchPanel")
  /\ cur' = [op |-> "toggleSearchPanel", crit |-> NoCrit, arg |-> NoArg]
  /\ loc' = NoLoc
  /\ obs' = NoObs
  /\ toggleSearchPanel
  /\ pc' = "idle"
  /\ ret' = [NoRet EXCEPT !.op = "toggleSearchPanel", !.status = "returned"]
  /\ UNCHANGED <<login, dash, url, switch, attrs, panelCount, toggleVisible, form, fieldErr, suggestion,
                 tableBody, rows, noRecCell, toast, pending>>

(* ---- testToggleSearchPanel ---- *)

TtInitial ==
  /\ pc = "tt_init"
  /\ loc' = [loc EXCEPT !.b1 = isSearchPanelVisible]
  /\ pc' = "tt_toggle"
  /\ UNCHANGED <<page, cur, calls, obs, ret>>

TtToggle ==
  /\ pc = "tt_toggle"
  /\ toggleSearchPanel
  /\ pc' = "tt_wait"
  /\ UNCHANGED <<login, dash, url, switch, attrs, panelCount, toggleVisible, form, fieldErr, suggestion,
                 tableBody, rows, noRecCell, toast, pending,
                 cur, loc, calls, obs, ret>>

TtWait ==
  /\ pc = "tt_wait"
  /\ pc' = "tt_final"
  /\ UNCHANGED <<page, cur, loc, calls, obs, ret>>

TtFinal ==
  /\ pc = "tt_final"
  /\ Finish("returned", loc.b1 # isSearchPanelVisible, <<>>)
  /\ UNCHANGED <<page, cur, loc, calls, obs>>

(* ---- fillSearchCriteria and the fills it is made of ---- *)

FillEmployeeName ==
  /\ pc = "fill_emp"
  /\ waitForElement(PanelShown)
  /\ IF PanelShown
     THEN /\ form' = [form EXCEPT !.employeeName = cur.crit.employeeName.text,
                                  !.selected = FALSE]
          /\ suggestion' = IF HasSuggestion(cur.crit.employeeName.text)
                           THEN "pending" ELSE "none"
          /\ pc' = "suggest"
          /\ ret' = ret
     ELSE /\ Throw
          /\ UNCHANGED <<form, suggestion>>
  /\ UNCHANGED <<login, dash, url, switch, attrs, panelCount, panelStyle, toggleVisible, fieldErr, tableBody,
                 rows, noRecCell, toast, pending, cur, loc, calls, obs>>

\* fillSmartTextInput: the first autocomplete option is clicked when it is
\* already there
PickSuggestion ==
  /\ pc = "suggest"
  /\ IF suggestion = "shown"
     THEN /\ form' = [form EXCEPT !.employeeName = <<"Admin User">>,
                                  !.selected = TRUE]
          /\ suggestion' = "none"
     ELSE UNCHANGED <<form, suggestion>>
  /\ IF cur.op = "fillEmployeeName"
     THEN Finish("returned", FALSE, <<>>)
     ELSE pc' = NextFill(cur.op, cur.crit, 2) /\ ret' = ret
  /\ UNCHANGED <<login, dash, url, switch, attrs, panelCount, panelStyle, toggleVisible, fieldErr, tableBody,
                 rows, noRecCell, toast, pending, cur, loc, calls, obs>>

FillUsername ==
  /\ pc = "fill_user"
  /\ waitForElement(PanelShown)
  /\ IF PanelShown
     THEN /\ form' = [form EXCEPT !.username = cur.crit.username.text]
          /\ pc' = NextFill(cur.op, cur.crit, 3)
          /\ ret' = ret
     ELSE /\ Throw
          /\ form' = form
  /\ UNCHANGED <<login, dash, url, switch, attrs, panelCount, panelStyle, toggleVisible, fieldErr, suggestion,
                 tableBody, rows, noRecCell, toast, pending,
                 cur, loc, calls, obs>>

SelectUserRole ==
  /\ pc = "sel_role"
  /\ waitForElement(PanelShown)
  /\ IF PanelShown /\ cur.crit.userRole.text \in RoleOptions
     THEN /\ form' = [form EXCEPT !.userRole = cur.crit.userRole.text]
          /\ pc' = NextFill(cur.op, cur.crit, 4)
          /\ ret' = ret
     ELSE /\ Throw
          /\ form' = form
  /\ UNCHANGED <<login, dash, url, switch, attrs, panelCount, panelStyle, toggleVisible, fieldErr, suggestion,
                 tableBody, rows, noRecCell, toast, pending,
                 cur, loc, calls, obs>>

SelectStatus ==
  /\ pc = "sel_status"
  /\ waitForElement(PanelShown)
  /\ IF PanelShown /\ cur.crit.status.text \in StatusOptions
     THEN /\ form' = [form EXCEPT !.status = cur.crit.status.text]
          /\ pc' = AfterFills(cur.op)
          /\ ret' = ret
     ELSE /\ Throw
          /\ form' = form
  /\ UNCHANGED <<login, dash, url, switch, attrs, panelCount, panelStyle, toggleVisible, fieldErr, suggestion,
                 tableBody, rows, noRecCell, toast, pending,
                 cur, loc, calls, obs>>

(* ---- searchUsers ---- *)

ValidationWait ==
  /\ pc = "validation_wait"
  /\ pc' = "validate"
  /\ UNCHANGED <<page, cur, loc, calls, obs, ret>>

Validate ==
  /\ pc = "validate"
  /\ obs' = [obs EXCEPT !.validated = TRUE,
                        !.errAtCheck = hasEmployeeNameError \/ hasUsernameError]
  /\ IF validateSearchCriteria(cur.crit)
     THEN ReturnFromSearch
     ELSE pc' = "click" /\ ret' = ret
  /\ UNCHANGED <<page, cur, loc, calls>>

\* clickSearchButton, and what the application does with the click: a form
\* with an invalid field is not submitted and shows the field error
ClickSearch ==
  /\ pc = "click"
  /\ waitForElement(PanelShown)
  /\ IF PanelShown
     THEN /\ obs' = [obs EXCEPT !.clicked = TRUE]
          /\ IF InvalidForm
             THEN /\ fieldErr' = [fieldErr EXCEPT !["employeeName"] = Shown(<<"Invalid">>)]
                  /\ pending' = pending
             ELSE /\ pending' = [has |-> TRUE, q |-> form]
                  /\ fieldErr' = fieldErr
          /\ pc' = IF cur.op = "performSearch" THEN "wfr_sleep" ELSE "wsc_sleep"
          /\ ret' = ret
     ELSE /\ Throw
          /\ UNCHANGED <<obs, fieldErr, pending>>
  /\ UNCHANGED <<login, dash, url, switch, attrs, panelCount, panelStyle, toggleVisible, form, suggestion,
                 tableBody, rows, noRecCell, toast, cur, loc, calls>>

\* waitForSearchCompletion -> waitForSearchComplete: hasSearchResults sleeps,
\* both reads are made and thrown away
WscSleep ==
  /\ pc = "wsc_sleep"
  /\ pc' = "wsc_check"
  /\ UNCHANGED <<page, cur, loc, calls, obs, ret>>

WscCheck ==
  /\ pc = "wsc_check"
  /\ ReturnFromSearch
  /\ UNCHANGED <<page, cur, loc, calls, obs>>

(* ---- testInvalidUserName ---- *)

TiuHasNoRecords ==
  /\ pc = "tiu_has"
  /\ loc' = [loc EXCEPT !.b1 = hasNoRecordsFound]
  /\ pc' = "tiu_msg"
  /\ UNCHANGED <<page, cur, calls, obs, ret>>

TiuMessage ==
  /\ pc = "tiu_msg"
  /\ Finish("returned", loc.b1 /\ Len(getNoRecordsFoundMessage) > 0,
            getNoRecordsFoundMessage)
  /\ UNCHANGED <<page, cur, loc, calls, obs>>

(* ---- waitForSearchResults ---- *)

WfrSleep ==
  /\ pc = "wfr_sleep"
  /\ pc' = "wfr_results"
  /\ UNCHANGED <<page, cur, loc, calls, obs, ret>>

WfrResults ==
  /\ pc = "wfr_results"
  /\ loc' = [loc EXCEPT !.b1 = hasSearchResults]
  /\ pc' = "wfr_norecords"
  /\ UNCHANGED <<page, cur, calls, obs, ret>>

WfrNoRecords ==
  /\ pc = "wfr_norecords"
  /\ IF loc.b1 \/ hasNoRecordsFound
     THEN Finish("returned", FALSE, <<>>)
     ELSE pc' = "wfr_race" /\ ret' = ret
  /\ loc' = [loc EXCEPT !.legs = IF loc.b1 \/ hasNoRecordsFound
                                 THEN <<>> ELSE SearchRaceLegs]
  /\ UNCHANGED <<page, cur, calls, obs>>

(* ---- waitForAdminSearchResults ---- *)

WasrSleep ==
  /\ pc = "wasr_sleep"
  /\ pc' = "wasr_results"
  /\ UNCHANGED <<page, cur, loc, calls, obs, ret>>

WasrResults ==
  /\ pc = "wasr_results"
  /\ loc' = [loc EXCEPT !.b1 = hasSearchResults]
  /\ pc' = "wasr_norecords"
  /\ UNCHANGED <<page, cur, calls, obs, ret>>

WasrNoRecords ==
  /\ pc = "wasr_norecords"
  /\ IF loc.b1 \/ hasNoRecordsFound
     THEN Finish("returned", FALSE, <<>>) /\ loc' = loc
     ELSE /\ pc' = "wasr_race"
          /\ loc' = [loc EXCEPT !.legs = AdminSearchRaceLegs]
          /\ ret' = ret
  /\ UNCHANGED <<page, cur, calls, obs>>

\* what the leg waits for is visible
LegSettled(leg) ==
  CASE leg.awaits = "table" -> tableBody = "visible"
    [] leg.awaits = "noRecords" -> noRecCell.visible
    [] leg.awaits = "toast" -> toast.visible

WasrRaceWon ==
  /\ pc = "wasr_race"
  /\ \E i \in 1..Len(loc.legs) : LegSettled(loc.legs[i])
  /\ Finish("returned", FALSE, <<>>)
  /\ UNCHANGED <<page, cur, loc, calls, obs>>

\* the first leg to time out rejects the race; the catch block takes over
WasrRaceTimedOut ==
  /\ pc = "wasr_race"
  /\ \A i \in 1..Len(loc.legs) : ~LegSettled(loc.legs[i])
  /\ pc' = "wasr_fallback"
  /\ UNCHANGED <<page, cur, loc, calls, obs, ret>>

WasrFallbackWait ==
  /\ pc = "wasr_fallback"
  /\ pc' = "wasr_table"
  /\ UNCHANGED <<page, cur, loc, calls, obs, ret>>

\* the table body, when there is one, is waited for outside any try block
WasrFallbackTable ==
  /\ pc = "wasr_table"
  /\ IF tableBody = "hidden" THEN Throw ELSE Finish("returned", FALSE, <<>>)
  /\ UNCHANGED <<page, cur, loc, calls, obs>>

\* the catch block around the race
RaceTimeout_NoCatch == "thrown"

RaceTimeout == "returned"

WfrRaceWon ==
  /\ pc = "wfr_race"
  /\ tableBody = "visible" \/ noRecCell.visible
  /\ Finish("returned", FALSE, <<>>)
  /\ UNCHANGED <<page, cur, loc, calls, obs>>

WfrRaceTimedOut ==
  /\ pc = "wfr_race"
  /\ ~(tableBody = "visible" \/ noRecCell.visible)
  /\ obs' = [obs EXCEPT !.timedOut = TRUE]
  /\ Finish(RaceTimeout, FALSE, <<>>)
  /\ UNCHANGED <<page, cur, loc, calls>>

(* ---- resetSearchCriteria, testResetSearchCriteria ---- *)

\* the click on Reset, and what the application does with it: the filters go
\* back to their defaults and the unfiltered list is requested
clickResetButton_Omitted == UNCHANGED <<form, suggestion, pending>>

clickResetButton ==
  /\ form' = EmptyForm
  /\ suggestion' = "none"
  /\ pending' = [has |-> TRUE, q |-> EmptyForm]

ResetClick ==
  /\ pc = "reset_click"
  /\ waitForElement(PanelShown)
  /\ IF PanelShown
     THEN /\ clickResetButton
          /\ pc' = "reset_wait"
          /\ ret' = ret
     ELSE /\ Throw
          /\ UNCHANGED <<form, suggestion, pending>>
  /\ UNCHANGED <<login, dash, url, switch, attrs, panelCount, panelStyle, toggleVisible, fieldErr, tableBody,
                 rows, noRecCell, toast, cur, loc, calls, obs>>

ResetWait ==
  /\ pc = "reset_wait"
  /\ IF cur.op = "testResetSearchCriteria"
     THEN pc' = "trs_verify" /\ ret' = ret
     ELSE Finish("returned", FALSE, <<>>)
  /\ UNCHANGED <<page, cur, loc, calls, obs>>

TrsVerify ==
  /\ pc = "trs_verify"
  /\ Finish("returned", verifyDefaultSearchState, <<>>)
  /\ UNCHANGED <<page, cur, loc, calls, obs>>

Next ==
  \/ CallSearchUsers \/ CallTestInvalidUserName \/ CallPerformSearch
  \/ CallFillEmployeeName \/ CallWaitForSearchResults
  \/ CallToggleSearchPanel \/ CallTestToggleSearchPanel
  \/ TtInitial \/ TtToggle \/ TtWait \/ TtFinal
  \/ FillEmployeeName \/ PickSuggestion \/ FillUsername
  \/ SelectUserRole \/ SelectStatus
  \/ ValidationWait \/ Validate \/ ClickSearch \/ WscSleep \/ WscCheck
  \/ TiuHasNoRecords \/ TiuMessage
  \/ WfrSleep \/ WfrResults \/ WfrNoRecords \/ WfrRaceWon \/ WfrRaceTimedOut
  \/ CallWaitForAdminSearchResults
  \/ WasrSleep \/ WasrResults \/ WasrNoRecords
  \/ WasrRaceWon \/ WasrRaceTimedOut \/ WasrFallbackWait \/ WasrFallbackTable
  \/ CallResetSearchCriteria \/ CallTestResetSearchCriteria
  \/ ResetClick \/ ResetWait \/ TrsVerify
  \/ AppValidate \/ AppSuggest \/ AppLoading \/ AppRespond \/ ToastExpire

Spec == Init /\ [][Next]_vars

\* searchUsers alone against the application; the panel can be toggled
\* between the calls
SearchUsersStep ==
  \/ FillEmployeeName \/ PickSuggestion \/ FillUsername
  \/ SelectUserRole \/ SelectStatus
  \/ ValidationWait \/ Validate \/ ClickSearch \/ WscSleep \/ WscCheck

NextSearchUsers ==
  \/ CallSearchUsers \/ CallToggleSearchPanel
  \/ FillEmployeeName \/ PickSuggestion \/ FillUsername
  \/ SelectUserRole \/ SelectStatus
  \/ ValidationWait \/ Validate \/ ClickSearch \/ WscSleep \/ WscCheck
  \/ AppValidate \/ AppSuggest \/ AppLoading \/ AppRespond \/ ToastExpire

\* an awaited step of the call does not hang: it settles or times out; the
\* application is under no obligation
SpecSearchUsersLive ==
  Init /\ [][NextSearchUsers]_vars /\ WF_vars(SearchUsersStep)

-----------------------------------------------------------------------------
(* SpecForm: the generic field helpers, applied to a form that already
   holds values *)

FieldsLabelled(label) == {f \in TextFields : FieldLabels[f] = label}

\* //label[normalize-space()='<fieldName>']/ancestor::div[...]//input
InputOf_FirstInput(label) == "employeeName"

InputOf(label) == CHOOSE f \in FieldsLabelled(label) : TRUE

SetValue(fm, f, text) ==
  IF f = "employeeName"
  THEN [fm EXCEPT !.employeeName = text, !.selected = FALSE]
  ELSE [fm EXCEPT !.username = text]

ValueOf(fm, f) == IF f = "employeeName" THEN fm.employeeName ELSE fm.username

\* locator.clear() and locator.fill(text)
clear(old) == <<>>

fill(old, text) == text

LabelInputs == {<<"Username">>, <<"Employee Name">>, <<"username">>}
ValueInputs == {<<>>, <<"Admin">>, <<"nonexistentuser">>}
HeldValues == {<<>>, <<"Admin">>}

CallFillTextInput ==
  \E l \in LabelInputs, v \in ValueInputs :
    /\ BeginWith("fillTextInput", NoCrit,
                 [field |-> l, value |-> v, enabled |-> FALSE], "fti_wait")
    /\ UNCHANGED <<page, ret>>

FtiWait ==
  /\ pc = "fti_wait"
  /\ LET located == FieldsLabelled(cur.arg.field) # {} /\ PanelShown
     IN /\ waitForElement(located)
        /\ IF located THEN pc' = "fti_clear" /\ ret' = ret ELSE Throw
  /\ UNCHANGED <<page, cur, loc, calls, obs>>

FtiClear ==
  /\ pc = "fti_clear"
  /\ LET f == InputOf(cur.arg.field)
     IN form' = SetValue(form, f, clear(ValueOf(form, f)))
  /\ pc' = "fti_fill"
  /\ UNCHANGED <<login, dash, url, switch, attrs, panelCount, panelStyle,
                 toggleVisible, fieldErr, suggestion, tableBody, rows,
                 noRecCell, toast, pending, cur, loc, calls, obs, ret>>

FtiFill ==
  /\ pc = "fti_fill"
  /\ LET f == InputOf(cur.arg.field)
     IN form' = SetValue(form, f, fill(ValueOf(form, f), cur.arg.value))
  /\ Finish("returned", FALSE, <<>>)
  /\ UNCHANGED <<login, dash, url, switch, attrs, panelCount, panelStyle,
                 toggleVisible, fieldErr, suggestion, tableBody, rows,
                 noRecCell, toast, pending, cur, loc, calls, obs>>

toggleNeeded_Always(isCurrentlyEnabled, enabled) == TRUE

toggleNeeded(isCurrentlyEnabled, enabled) == isCurrentlyEnabled # enabled

CallToggleBooleanSwitch ==
  \E e \in BOOLEAN :
    /\ BeginWith("toggleBooleanSwitch", NoCrit,
                 [NoArg EXCEPT !.enabled = e], "tbs_read")
    /\ UNCHANGED <<page, ret>>

\* isChecked() waits for the checkbox and rejects when there is none
TbsRead ==
  /\ pc = "tbs_read"
  /\ IF ~switch.present THEN Throw /\ loc' = loc
     ELSE /\ loc' = [loc EXCEPT !.b1 = switch.checked]
          /\ IF toggleNeeded(switch.checked, cur.arg.enabled)
             THEN pc' = "tbs_click" /\ ret' = ret
             ELSE Finish("returned", FALSE, <<>>)
  /\ UNCHANGED <<page, cur, calls, obs>>

\* clickElement on the checkbox isChecked() has just read
TbsClick ==
  /\ pc = "tbs_click"
  /\ switch.present
  /\ switch' = [switch EXCEPT !.checked = ~switch.checked]
  /\ Finish("returned", FALSE, <<>>)
  /\ UNCHANGED <<login, dash, url, attrs, panelCount, panelStyle,
                 toggleVisible, form, fieldErr, suggestion, tableBody, rows,
                 noRecCell, toast, pending, cur, loc, calls, obs>>

InitForm ==
  /\ panelCount = 1
  /\ panelStyle \in {NoStyle, StyleOf(DisplayNone)}
  /\ toggleVisible = TRUE
  /\ \E e \in HeldValues, u \in HeldValues :
       form = [EmptyForm EXCEPT !.employeeName = e, !.username = u]
  /\ fieldErr = [f \in {"employeeName", "username"} |-> Hidden]
  /\ suggestion = "none"
  /\ tableBody = "visible"
  /\ rows = DB
  /\ noRecCell = Hidden
  /\ toast = NoToast
  /\ pending = NoRequest
  /\ dash = LeftDashboard
  /\ login = LeftLogin
  /\ url = AdminUserManagementUrl
  /\ switch \in [present : BOOLEAN, checked : BOOLEAN]
  /\ attrs = NoAttrs
  /\ pc = "idle"
  /\ cur = NoCall
  /\ loc = NoLoc
  /\ calls = <<>>
  /\ obs = NoObs
  /\ ret = NoRet

NextForm ==
  \/ CallFillTextInput \/ FtiWait \/ FtiClear \/ FtiFill
  \/ CallToggleBooleanSwitch \/ TbsRead \/ TbsClick

SpecForm == InitForm /\ [][NextForm]_vars

-----------------------------------------------------------------------------
(* SpecPanel: showSearchPanel, hideSearchPanel and toggleSearchPanel on the
   panel as the toggle leaves it *)

showSearchPanel_Unguarded == TRUE

\* the condition under which showSearchPanel clicks the toggle
showSearchPanel == isSearchPanelHidden

\* the condition under which hideSearchPanel clicks the toggle
hideSearchPanel == isSearchPanelVisible

CallShowSearchPanel ==
  /\ Begin("showSearchPanel", NoCrit,
           IF showSearchPanel THEN "panel_click" ELSE "panel_done")
  /\ UNCHANGED <<page, ret>>

CallHideSearchPanel ==
  /\ Begin("hideSearchPanel", NoCrit,
           IF hideSearchPanel THEN "panel_click" ELSE "panel_done")
  /\ UNCHANGED <<page, ret>>

\* clickElement(toggleButton): waits for the button, then clicks it
PanelClick ==
  /\ pc = "panel_click"
  /\ waitForElement(toggleVisible)
  /\ IF toggleVisible
     THEN /\ panelStyle' = Flipped
          /\ Finish("returned", FALSE, <<>>)
     ELSE /\ Throw
          /\ panelStyle' = panelStyle
  /\ UNCHANGED <<login, dash, url, switch, attrs, panelCount, toggleVisible,
                 form, fieldErr, suggestion, tableBody, rows, noRecCell,
                 toast, pending, cur, loc, calls, obs>>

PanelDone ==
  /\ pc = "panel_done"
  /\ Finish("returned", FALSE, <<>>)
  /\ UNCHANGED <<page, cur, loc, calls, obs>>

PanelStyles == {NoStyle, StyleOf(<<>>), StyleOf(DisplaySpaceNone)}

InitPanel ==
  /\ panelCount = 1
  /\ panelStyle \in PanelStyles
  /\ toggleVisible \in BOOLEAN
  /\ \E e \in HeldValues, u \in HeldValues :
       form = [EmptyForm EXCEPT !.employeeName = e, !.username = u]
  /\ fieldErr = [f \in {"employeeName", "username"} |-> Hidden]
  /\ suggestion = "none"
  /\ tableBody = "visible"
  /\ rows = DB
  /\ noRecCell = Hidden
  /\ toast = NoToast
  /\ pending = NoRequest
  /\ dash = LeftDashboard
  /\ login = LeftLogin
  /\ url = AdminUserManagementUrl
  /\ switch = NoSwitch
  /\ attrs = NoAttrs
  /\ pc = "idle"
  /\ cur = NoCall
  /\ loc = NoLoc
  /\ calls = <<>>
  /\ obs = NoObs
  /\ ret = NoRet

NextPanel ==
  \/ CallShowSearchPanel \/ CallHideSearchPanel \/ CallToggleSearchPanel
  \/ PanelClick \/ PanelDone

SpecPanel == InitPanel /\ [][NextPanel]_vars

-----------------------------------------------------------------------------
(* SpecLookup: getTextInputValue on inputs with every combination of name
   and placeholder attributes *)

\* input[placeholder*="<fieldName>"]
ByPlaceholder(fieldName) ==
  {f \in TextFields : Includes(attrs[f].placeholder, fieldName)}

\* input[name="<fieldName.toLowerCase()>"]
ByName(fieldName) ==
  {f \in TextFields : attrs[f].name = ToLowerCase(fieldName)}

\* the selector list of getTextInputValue: an input that matches either part
getTextInputValue_Matches(fieldName) ==
  ByPlaceholder(fieldName) \cup ByName(fieldName)

NamePool == {<<>>, <<"username">>}
PlaceholderPool == {<<>>, <<"Username">>, <<"Type for hints...">>}
FieldNameInputs == {<<"Username">>, <<"Employee Name">>}

CallGetTextInputValue ==
  \E n \in FieldNameInputs :
    /\ BeginWith("getTextInputValue", NoCrit, [NoArg EXCEPT !.field = n],
                 "gtv_read")
    /\ UNCHANGED <<page, ret>>

\* input.inputValue(): one match gives its value; none ends in a
\* TimeoutError and more than one in a strict mode violation
GtvRead ==
  /\ pc = "gtv_read"
  /\ LET matches == getTextInputValue_Matches(cur.arg.field)
     IN IF Cardinality(matches) = 1 /\ PanelShown
        THEN Finish("returned", FALSE,
                    ValueOf(form, CHOOSE f \in matches : TRUE))
        ELSE Throw
  /\ UNCHANGED <<page, cur, loc, calls, obs>>

InitLookup ==
  /\ panelCount = 1
  /\ panelStyle = NoStyle
  /\ toggleVisible = TRUE
  /\ form = [EmptyForm EXCEPT !.employeeName = <<"NonExistent">>,
                              !.username = <<"Admin">>]
  /\ fieldErr = [f \in {"employeeName", "username"} |-> Hidden]
  /\ suggestion = "none"
  /\ tableBody = "visible"
  /\ rows = DB
  /\ noRecCell = Hidden
  /\ toast = NoToast
  /\ pending = NoRequest
  /\ dash = LeftDashboard
  /\ login = LeftLogin
  /\ url = AdminUserManagementUrl
  /\ switch = NoSwitch
  /\ attrs \in [TextFields -> [name : NamePool, placeholder : PlaceholderPool]]
  /\ pc = "idle"
  /\ cur = NoCall
  /\ loc = NoLoc
  /\ calls = <<>>
  /\ obs = NoObs
  /\ ret = NoRet

NextLookup == CallGetTextInputValue \/ GtvRead

SpecLookup == InitLookup /\ [][NextLookup]_vars

-----------------------------------------------------------------------------
(* SpecStyle: isSearchPanelVisible applied to every panel state *)

Quiet ==
  /\ form = EmptyForm
  /\ suggestion = "none"
  /\ pending = NoRequest
  /\ pc = "idle"
  /\ cur = NoCall
  /\ loc = NoLoc
  /\ calls = <<>>
  /\ obs = NoObs
  /\ ret = NoRet

InitStyle ==
  /\ panelCount \in PanelCounts
  /\ panelStyle \in {NoStyle} \cup {StyleOf(s) : s \in SeqsUpTo(StylePieces, MaxStyleLen)}
  /\ toggleVisible = FALSE
  /\ fieldErr = [f \in {"employeeName", "username"} |-> Hidden]
  /\ tableBody = "visible"
  /\ rows = DB
  /\ noRecCell = Hidden
  /\ toast = NoToast
  /\ dash = LeftDashboard
  /\ login = LeftLogin
  /\ url = AdminUserManagementUrl
  /\ switch = NoSwitch
  /\ attrs = NoAttrs
  /\ Quiet

Returned(op, b, msg, n, recs) ==
  /\ ret' = [op |-> op, status |-> "returned", b |-> b, msg |-> msg,
             n |-> n, recs |-> recs]
  /\ UNCHANGED <<page, flow>>

CallIsSearchPanelVisible ==
  Returned("isSearchPanelVisible", isSearchPanelVisible, <<>>, 0, <<>>)

CallIsSearchPanelHidden ==
  Returned("isSearchPanelHidden", isSearchPanelHidden, <<>>, 0, <<>>)

CallPart005IsSearchPanelVisible ==
  Returned("part_005.isSearchPanelVisible", Part005_isSearchPanelVisible,
           <<>>, 0, <<>>)

NextStyle ==
  \/ CallIsSearchPanelVisible \/ CallIsSearchPanelHidden
  \/ CallPart005IsSearchPanelVisible

SpecStyle == InitStyle /\ [][NextStyle]_vars

-----------------------------------------------------------------------------
(* SpecUI: the result reads applied to every state of the results area *)

RowPool ==
  { DB[1], DB[2], Row(<<" ", "Admin", " ">>, <<"Admin">>, <<>>, <<" ">>) }

CellTexts ==
  { NoRecordsExact, <<"no records found">>, <<" ", "No Records Found", " ">> }

FieldErrTexts == { <<"Invalid">>, <<"Required">>, <<" ">> }

ToastTexts ==
  { NoRecordsExact, <<"no records found">>, <<"NO RECORDS FOUND">>,
    <<" ", "No Records Found">>, <<"Invalid">>, <<>> }

InitUI ==
  /\ panelCount = 1
  /\ panelStyle = NoStyle
  /\ toggleVisible = FALSE
  /\ fieldErr \in [{"employeeName", "username"} ->
                     {Hidden} \cup {Shown(t) : t \in FieldErrTexts}]
  /\ tableBody \in {"absent", "hidden", "visible"}
  /\ rows \in SeqsUpTo(RowPool, MaxRows)
  /\ tableBody = "absent" => rows = <<>>
  /\ noRecCell \in {Hidden} \cup {Shown(t) : t \in CellTexts}
  /\ noRecCell.visible => tableBody = "visible"
  /\ toast \in {NoToast} \cup {Toast(e, t) : e \in BOOLEAN, t \in ToastTexts}
  /\ dash = LeftDashboard
  /\ login = LeftLogin
  /\ url = AdminUserManagementUrl
  /\ switch = NoSwitch
  /\ attrs = NoAttrs
  /\ Quiet

\* getFieldErrorMessage with the label the getter passes: the error region
\* under that label, '' when no label of the page reads so
getFieldErrorMessageUnder(label) ==
  IF FieldsLabelled(label) = {} THEN <<>>
  ELSE getFieldErrorMessage(CHOOSE f \in FieldsLabelled(label) : TRUE)

getEmployeeNameError == getFieldErrorMessageUnder(<<"employeeName">>)

getUsernameError == getFieldErrorMessageUnder(<<"username">>)

CallGetEmployeeNameError ==
  Returned("getEmployeeNameError", hasEmployeeNameError, getEmployeeNameError,
           0, <<>>)

CallGetUsernameError ==
  Returned("getUsernameError", hasUsernameError, getUsernameError, 0, <<>>)

CallHasSearchResults ==
  Returned("hasSearchResults", hasSearchResults, <<>>, 0, <<>>)

CallHasNoRecordsFound ==
  Returned("hasNoRecordsFound", hasNoRecordsFound, <<>>, 0, <<>>)

CallGetNoRecordsFoundMessage ==
  Returned("getNoRecordsFoundMessage", FALSE, getNoRecordsFoundMessage, 0, <<>>)

CallGetSearchResultsCount ==
  Returned("getSearchResultsCount", FALSE, <<>>, getSearchResultsCount, <<>>)

CallGetSearchResultRowCount ==
  Returned("getSearchResultRowCount", FALSE, <<>>, getSearchResultRowCount, <<>>)

CallGetSearchResults ==
  Returned("getSearchResults", FALSE, <<>>, 0, getSearchResults)

CallGetAllValidationErrors ==
  Returned("getAllValidationErrors", FALSE, <<>>, 0, getAllValidationErrors)

NextUI ==
  \/ CallGetAllValidationErrors
  \/ CallGetEmployeeNameError \/ CallGetUsernameError
  \/ CallHasSearchResults \/ CallHasNoRecordsFound
  \/ CallGetNoRecordsFoundMessage \/ CallGetSearchResultsCount
  \/ CallGetSearchResultRowCount \/ CallGetSearchResults

SpecUI == InitUI /\ [][NextUI]_vars

-----------------------------------------------------------------------------
(* SpecUrl: isOnLoginPage and isOnDashboardPage applied to every URL *)

endsWith(s, t) == Len(s) > 0 /\ s[Len(s)] = t

isOnLoginPage == Includes(url, <<"/", "login">>) \/ endsWith(url, "/")

isOnDashboardPage == Includes(url, <<"/", "dashboard">>)

PathPieces == {"/", "auth", "login", "dashboard", "index"}

CallIsOnLoginPage ==
  Returned("isOnLoginPage", isOnLoginPage, <<>>, 0, <<>>)

CallIsOnDashboardPage ==
  Returned("isOnDashboardPage", isOnDashboardPage, <<>>, 0, <<>>)

InitUrl ==
  /\ panelCount = 0
  /\ panelStyle = NoStyle
  /\ toggleVisible = FALSE
  /\ fieldErr = [f \in {"employeeName", "username"} |-> Hidden]
  /\ tableBody = "absent"
  /\ rows = <<>>
  /\ noRecCell = Hidden
  /\ toast = NoToast
  /\ dash = NoDashboard
  /\ login = LoginForm
  /\ url \in {BaseUrl \o path : path \in SeqsUpTo(PathPieces, MaxPathLen)}
  /\ switch = NoSwitch
  /\ attrs = NoAttrs
  /\ Quiet

NextUrl == CallIsOnLoginPage \/ CallIsOnDashboardPage

SpecUrl == InitUrl /\ [][NextUrl]_vars

-----------------------------------------------------------------------------
(* SpecDash: DashboardPage against a dashboard that is still loading *)

CardTexts == { <<>>, <<" ">>, <<"Assign Leave">> }

CardHasContent(card) == Trim(card.text) # <<>>

isUserMenuVisible == dash.userMenu

areQuickLaunchCardsVisible == Len(dash.cards) > 0

isDashboardLoaded ==
  dash.title /\ areQuickLaunchCardsVisible /\ isUserMenuVisible

firstQuickLaunchCardVisible == Len(dash.cards) > 0 /\ dash.cards[1].visible

\* the predicate of page.waitForFunction in waitForQuickLaunchCards
cardsHaveContent_CountOnly == Len(dash.cards) > 0

cardsHaveContent ==
  Len(dash.cards) > 0 /\ \E i \in 1..Len(dash.cards) : CardHasContent(dash.cards[i])

(* ---- the application renders the dashboard piece by piece ---- *)

DashShowTitle ==
  /\ ~dash.title
  /\ dash' = [dash EXCEPT !.title = TRUE]
  /\ UNCHANGED <<login, url, switch, attrs, panelCount, panelStyle, toggleVisible, form, fieldErr,
                 suggestion, tableBody, rows, noRecCell, toast, pending,
                 flow, ret>>

DashShowUserMenu ==
  /\ ~dash.userMenu
  /\ dash' = [dash EXCEPT !.userMenu = TRUE]
  /\ UNCHANGED <<login, url, switch, attrs, panelCount, panelStyle, toggleVisible, form, fieldErr,
                 suggestion, tableBody, rows, noRecCell, toast, pending,
                 flow, ret>>

DashAddCard ==
  /\ Len(dash.cards) < MaxCards
  /\ \E t \in {<<>>, <<" ">>} :
       dash' = [dash EXCEPT !.cards = Append(@, [visible |-> FALSE, text |-> t])]
  /\ UNCHANGED <<login, url, switch, attrs, panelCount, panelStyle, toggleVisible, form, fieldErr,
                 suggestion, tableBody, rows, noRecCell, toast, pending,
                 flow, ret>>

DashShowCard ==
  /\ \E i \in 1..Len(dash.cards) :
       /\ ~dash.cards[i].visible
       /\ dash' = [dash EXCEPT !.cards[i].visible = TRUE]
  /\ UNCHANGED <<login, url, switch, attrs, panelCount, panelStyle, toggleVisible, form, fieldErr,
                 suggestion, tableBody, rows, noRecCell, toast, pending,
                 flow, ret>>

DashFillCard ==
  /\ \E i \in 1..Len(dash.cards) :
       /\ ~CardHasContent(dash.cards[i])
       /\ dash' = [dash EXCEPT !.cards[i].text = <<"Assign Leave">>]
  /\ UNCHANGED <<login, url, switch, attrs, panelCount, panelStyle, toggleVisible, form, fieldErr,
                 suggestion, tableBody, rows, noRecCell, toast, pending,
                 flow, ret>>

(* ---- waitForDashboardLoad: each wait resolves or runs into its timeout ---- *)

CallWaitForDashboardLoad ==
  /\ Begin("waitForDashboardLoad", NoCrit, "wdl_title")
  /\ UNCHANGED <<page, ret>>

WdlTitle ==
  /\ pc = "wdl_title"
  /\ IF dash.title
     THEN pc' = "wdl_card" /\ ret' = ret
     ELSE Throw
  /\ UNCHANGED <<page, cur, loc, calls, obs>>

WdlFirstCard ==
  /\ pc = "wdl_card"
  /\ IF firstQuickLaunchCardVisible
     THEN pc' = "wdl_content" /\ ret' = ret
     ELSE Throw
  /\ UNCHANGED <<page, cur, loc, calls, obs>>

WdlContent ==
  /\ pc = "wdl_content"
  /\ IF cardsHaveContent
     THEN Finish("returned", FALSE, <<>>)
     ELSE Throw
  /\ UNCHANGED <<page, cur, loc, calls, obs>>

CallIsDashboardLoaded ==
  /\ pc = "idle"
  /\ Returned("isDashboardLoaded", isDashboardLoaded, <<>>, 0, <<>>)

CallAreQuickLaunchCardsVisible ==
  /\ pc = "idle"
  /\ Returned("areQuickLaunchCardsVisible", areQuickLaunchCardsVisible, <<>>, 0, <<>>)

InitDash ==
  /\ panelCount = 0
  /\ panelStyle = NoStyle
  /\ toggleVisible = FALSE
  /\ fieldErr = [f \in {"employeeName", "username"} |-> Hidden]
  /\ tableBody = "absent"
  /\ rows = <<>>
  /\ noRecCell = Hidden
  /\ toast = NoToast
  /\ dash = NoDashboard
  /\ login = LeftLogin
  /\ url = DashboardUrl
  /\ switch = NoSwitch
  /\ attrs = NoAttrs
  /\ Quiet

NextDash ==
  \/ DashShowTitle \/ DashShowUserMenu
  \/ DashAddCard \/ DashShowCard \/ DashFillCard
  \/ CallWaitForDashboardLoad \/ WdlTitle \/ WdlFirstCard \/ WdlContent
  \/ CallIsDashboardLoaded \/ CallAreQuickLaunchCardsVisible

SpecDash == InitDash /\ [][NextDash]_vars

\* a pending wait does not hang: it resolves or its timeout fires
SpecDashLive ==
  /\ SpecDash
  /\ WF_vars(WdlTitle) /\ WF_vars(WdlFirstCard) /\ WF_vars(WdlContent)

-----------------------------------------------------------------------------
(* SpecLogin: LoginPage against the login form *)

AdminUsername == <<"Admin">>
AdminPassword == <<"admin123">>

Usernames == { AdminUsername, <<"wronguser">>, <<>> }
Passwords == { AdminPassword, <<"wrongpassword">>, <<>> }

isLoginAlertVisible == login.alert.visible

isFieldErrorMessageVisible ==
  \E i \in 1..Len(login.fieldErrs) : login.fieldErrs[i].visible

isErrorMessageVisible == isLoginAlertVisible \/ isFieldErrorMessageVisible

getFieldErrorMessages ==
  LET shown == SelectSeq(login.fieldErrs,
                         LAMBDA e : e.visible /\ Trim(e.text) # <<>>)
  IN [i \in 1..Len(shown) |-> Trim(shown[i].text)]

getErrorMessage_AlertOnly ==
  IF isLoginAlertVisible THEN login.alert.text ELSE <<>>

getErrorMessage ==
  IF isLoginAlertVisible THEN login.alert.text
  ELSE IF Len(getFieldErrorMessages) > 0 THEN getFieldErrorMessages[1]
  ELSE <<>>

\* the predicate of page.waitForFunction in waitForFieldErrorMessage
fieldErrorHasText ==
  \E i \in 1..Len(login.fieldErrs) : Trim(login.fieldErrs[i].text) # <<>>

(* ---- the application answers the click on Login ---- *)

\* an empty field is marked 'Required' and nothing is sent
LoginAppRequired ==
  /\ login.state = "clicked"
  /\ login.username = <<>> \/ login.password = <<>>
  /\ login' = [login EXCEPT
        !.state = "answered",
        !.fieldErrs =
          (IF login.username = <<>> THEN <<Shown(<<"Required">>)>> ELSE <<>>)
          \o (IF login.password = <<>> THEN <<Shown(<<"Required">>)>> ELSE <<>>)]
  /\ UNCHANGED <<dash, url, switch, attrs, panelCount, panelStyle, toggleVisible, form, fieldErr,
                 suggestion, tableBody, rows, noRecCell, toast, pending,
                 flow, ret>>

LoginAppReject ==
  /\ login.state = "clicked"
  /\ login.username # <<>> /\ login.password # <<>>
  /\ ~(ToLowerCase(login.username) = ToLowerCase(AdminUsername)
        /\ login.password = AdminPassword)
  /\ login' = [login EXCEPT !.state = "answered",
                            !.alert = Shown(<<"Invalid credentials">>)]
  /\ UNCHANGED <<dash, url, switch, attrs, panelCount, panelStyle, toggleVisible, form, fieldErr,
                 suggestion, tableBody, rows, noRecCell, toast, pending,
                 flow, ret>>

LoginAppAccept ==
  /\ login.state = "clicked"
  /\ ToLowerCase(login.username) = ToLowerCase(AdminUsername)
  /\ login.password = AdminPassword
  /\ login' = LeftLogin
  /\ url' = DashboardUrl
  /\ UNCHANGED <<dash, switch, attrs, panelCount, panelStyle, toggleVisible, form, fieldErr,
                 suggestion, tableBody, rows, noRecCell, toast, pending,
                 flow, ret>>

(* ---- login ---- *)

CallLogin ==
  \E u \in Usernames : \E p \in Passwords :
    /\ login.state = "form"
    /\ Begin("login", [username |-> u, password |-> p], "lg_user")
    /\ UNCHANGED <<page, ret>>

LgFillUsername ==
  /\ pc = "lg_user"
  /\ login' = [login EXCEPT !.username = cur.crit.username]
  /\ pc' = "lg_pass"
  /\ UNCHANGED <<dash, url, switch, attrs, panelCount, panelStyle, toggleVisible, form, fieldErr,
                 suggestion, tableBody, rows, noRecCell, toast, pending,
                 cur, loc, calls, obs, ret>>

LgFillPassword ==
  /\ pc = "lg_pass"
  /\ login' = [login EXCEPT !.password = cur.crit.password]
  /\ pc' = "lg_click"
  /\ UNCHANGED <<dash, url, switch, attrs, panelCount, panelStyle, toggleVisible, form, fieldErr,
                 suggestion, tableBody, rows, noRecCell, toast, pending,
                 cur, loc, calls, obs, ret>>

LgClick ==
  /\ pc = "lg_click"
  /\ login' = [login EXCEPT !.state = "clicked"]
  /\ Finish("returned", FALSE, <<>>)
  /\ UNCHANGED <<dash, url, switch, attrs, panelCount, panelStyle, toggleVisible, form, fieldErr,
                 suggestion, tableBody, rows, noRecCell, toast, pending,
                 cur, loc, calls, obs>>

(* ---- waitForLoginFailure: the first leg to settle decides ---- *)

CallWaitForLoginFailure ==
  /\ Begin("waitForLoginFailure", NoCrit, "wlf_race")
  /\ UNCHANGED <<page, ret>>

WlfRace ==
  /\ pc = "wlf_race"
  /\ IF isLoginAlertVisible \/ fieldErrorHasText
     THEN Finish("returned", FALSE, <<>>)
     ELSE Throw
  /\ UNCHANGED <<page, cur, loc, calls, obs>>

CallIsErrorMessageVisible ==
  /\ pc = "idle"
  /\ Returned("isErrorMessageVisible", isErrorMessageVisible, <<>>, 0, <<>>)

CallGetErrorMessage ==
  /\ pc = "idle"
  /\ Returned("getErrorMessage", FALSE, getErrorMessage, 0, <<>>)

(* ---- navigateToUserManagement ---- *)

urlIsUserManagement_Unchecked == TRUE

urlIsUserManagement == Includes(url, <<"admin/viewSystemUsers">>)

FailedToNavigate == <<"Failed to navigate to Admin User Management page">>

CallNavigateToUserManagement ==
  /\ Begin("navigateToUserManagement", NoCrit, "nav_goto")
  /\ UNCHANGED <<page, ret>>

\* page.goto and the wait for the load state: the application serves the page
\* to an open session and sends any other request to the login page; a
\* navigation that does not finish in time rejects
NavGoto ==
  /\ pc = "nav_goto"
  /\ \/ /\ url' = IF login.state = "dashboard"
                  THEN AdminUserManagementUrl ELSE LoginUrl
        /\ pc' = "nav_check"
        /\ ret' = ret
     \/ /\ Throw
        /\ url' = url
  /\ UNCHANGED <<login, dash, switch, attrs, panelCount, panelStyle, toggleVisible, form,
                 fieldErr, suggestion, tableBody, rows, noRecCell, toast,
                 pending, cur, loc, calls, obs>>

NavCheck ==
  /\ pc = "nav_check"
  /\ IF urlIsUserManagement
     THEN Finish("returned", FALSE, <<>>)
     ELSE Finish("thrown", FALSE, FailedToNavigate)
  /\ UNCHANGED <<page, cur, loc, calls, obs>>

InitLogin ==
  /\ panelCount = 0
  /\ panelStyle = NoStyle
  /\ toggleVisible = FALSE
  /\ fieldErr = [f \in {"employeeName", "username"} |-> Hidden]
  /\ tableBody = "absent"
  /\ rows = <<>>
  /\ noRecCell = Hidden
  /\ toast = NoToast
  /\ dash = NoDashboard
  /\ login = LoginForm
  /\ url = LoginUrl
  /\ switch = NoSwitch
  /\ attrs = NoAttrs
  /\ Quiet

NextLogin ==
  \/ LoginAppRequired \/ LoginAppReject \/ LoginAppAccept
  \/ CallLogin \/ LgFillUsername \/ LgFillPassword \/ LgClick
  \/ CallWaitForLoginFailure \/ WlfRace
  \/ CallNavigateToUserManagement \/ NavGoto \/ NavCheck
  \/ CallIsErrorMessageVisible \/ CallGetErrorMessage

SpecLogin == InitLogin /\ [][NextLogin]_vars

-----------------------------------------------------------------------------
(* Claims *)

InSearchUsers == cur.op \in {"searchUsers", "testInvalidUserName"}

\* C1: in searchUsers, when a field-level validation error is visible on any
\* search field at the validation check, the Search button is not clicked.
C1_NoClickAfterFieldError ==
  InSearchUsers => ~(obs.errAtCheck /\ obs.clicked)

\* C2: for an existing panel isSearchPanelVisible is false exactly when the
\* inline style contains display:none in any letter case and with any
\* whitespace around the colon; every other style, the absent one included,
\* gives true.
C2_VisibleIffNoDisplayNone ==
  panelCount = 1 => (isSearchPanelVisible <=> ~DeclaresDisplayNone(panelStyle.text))

\* C3: whenever a validation error is visible, hasSearchResults and
\* hasNoRecordsFound are both false.
C3_ValidationErrorPreempts ==
  hasAnyValidationError => ~hasSearchResults /\ ~hasNoRecordsFound

\* C4: hasSearchResults and hasNoRecordsFound are never both true, in
\* BaseSearchPage and in the AdminUserSearchPage overrides alike.
C4_ResultsExcludeNoRecords ==
  /\ ~(hasSearchResults /\ hasNoRecordsFound)
  /\ ~(Base_hasSearchResults /\ Base_hasNoRecordsFound)

ZeroMatch(u) == Matching([EmptyForm EXCEPT !.username = u]) = <<>>

\* C6: testInvalidUserName with a username that matches zero rows returns
\* true: hasNoRecordsFound is true and the message read after it is not empty
\* and contains 'No Records Found'.
C6_NoRecordsReported ==
  (/\ pc = "idle"
   /\ ret.op = "testInvalidUserName"
   /\ ret.status = "returned"
   /\ ZeroMatch(cur.crit.username.text))
  => ret.b /\ Includes(ret.msg, NoRecordsExact)

\* the in-table marker or a notification saying 'no records found' in any
\* letter case
NoRecordsSaid(text) ==
  \E i \in 1..Len(text) :
    text[i] \in {"No Records Found", "no records found", "NO RECORDS FOUND"}

NoRecordsSignal == noRecCell.visible \/ (toast.visible /\ NoRecordsSaid(toast.text))

Spaces(k) == [i \in 1..k |-> " "]

\* r is c without its leading and trailing whitespace
IsTrimOf(r, c) ==
  /\ r = <<>> \/ (~IsSpace(r[1]) /\ ~IsSpace(r[Len(r)]))
  /\ \E a \in 0..Len(c) : \E b \in 0..Len(c) : c = Spaces(a) \o r \o Spaces(b)

RecordOfRow(rec, row) ==
  /\ IsTrimOf(rec.username, row[2])
  /\ IsTrimOf(rec.userRole, row[3])
  /\ IsTrimOf(rec.employeeName, row[4])
  /\ IsTrimOf(rec.status, row[5])

\* C7: with n > 0 data rows and neither a validation error nor a no-records
\* signal, hasSearchResults is true, both counts are n and getSearchResults
\* gives the n records in row order, each made of cells 1..4 trimmed.
C7_ResultsWithRowCount ==
  (Len(rows) > 0 /\ ~hasAnyValidationError /\ ~NoRecordsSignal) =>
    /\ hasSearchResults
    /\ getSearchResultsCount = Len(rows)
    /\ getSearchResultRowCount = Len(rows)
    /\ Len(getSearchResults) = Len(rows)
    /\ \A i \in 1..Len(rows) : RecordOfRow(getSearchResults[i], rows[i])
    /\ ret.op = "getSearchResults" => ret.recs = getSearchResults
    /\ ret.op = "getSearchResultsCount" => ret.n = Len(rows)

C7_Witness ==
  /\ ret.op = "getSearchResults"
  /\ Len(rows) = 2
  /\ ~hasAnyValidationError /\ ~NoRecordsSignal
  /\ Len(ret.recs) = 2
  /\ ret.recs[1].employeeName = <<"Admin User">>
  /\ rows[1][4] = <<" ", "Admin User", " ">>

\* C8: hasNoRecordsFound is true exactly when the in-table cell is visible or
\* the notification text contains 'no records found' in any letter case.
C8_NoRecordsIsEitherSignal ==
  /\ hasNoRecordsFound <=> NoRecordsSignal
  /\ Base_hasNoRecordsFound <=> NoRecordsSignal
  /\ ret.op = "hasNoRecordsFound" => (ret.b <=> NoRecordsSignal)

C8_Witness ==
  /\ ret.op = "hasNoRecordsFound"
  /\ ret.b
  /\ ~noRecCell.visible
  /\ toast.visible
  /\ toast.text = <<"NO RECORDS FOUND">>

Toggles(k) == [i \in 1..k |-> "toggleSearchPanel"]

\* C9: isSearchPanelVisible is true on the fresh page, false after one
\* toggleSearchPanel call and true again after a second.
C9_ToggleFlipsPanel ==
  /\ calls = <<>> => isSearchPanelVisible
  /\ calls = Toggles(1) => ~isSearchPanelVisible
  /\ calls = Toggles(2) => isSearchPanelVisible

FieldDefinitionOrder == <<"employeeName", "username">>

\* the visible field errors in field-definition order, then the error toast,
\* each trimmed, the blank ones left out
ErrorsInDefinitionOrder ==
  LET ofField(k) ==
        IF fieldErr[FieldDefinitionOrder[k]].visible
        THEN Trim(fieldErr[FieldDefinitionOrder[k]].text) ELSE <<>>
      ofToast == IF toast.visible /\ toast.error THEN Trim(toast.text) ELSE <<>>
      all == <<ofField(1), ofField(2), ofToast>>
  IN SelectSeq(all, LAMBDA m : m # <<>>)

\* C12: getAllValidationErrors gives the field errors in field-definition
\* order first and the toast error last, and none of the strings it returns
\* is empty or whitespace-only.
C12_ErrorsInFieldOrder ==
  /\ getAllValidationErrors = ErrorsInDefinitionOrder
  /\ \A i \in 1..Len(getAllValidationErrors) :
       Trim(getAllValidationErrors[i]) # <<>>
  /\ ret.op = "getAllValidationErrors" => ret.recs = ErrorsInDefinitionOrder

InWaitForDashboardLoad == pc \in {"wdl_title", "wdl_card", "wdl_content"}

DashboardReady ==
  /\ dash.title
  /\ \E i \in 1..Len(dash.cards) : Trim(dash.cards[i].text) # <<>>

\* C13: waitForDashboardLoad returns normally only when the title is visible
\* and some quick-launch card has non-empty text, and a call that was started
\* always ends, by returning or by a timeout error.
C13_DashboardGate ==
  /\ [](( /\ pc = "idle"
          /\ cur.op = "waitForDashboardLoad"
          /\ ret.status = "returned"
          /\ ret.op = "waitForDashboardLoad" ) => DashboardReady)
  /\ (InWaitForDashboardLoad ~> (pc = "idle"))

C13_Witness ==
  /\ pc = "idle"
  /\ cur.op = "waitForDashboardLoad"
  /\ ret.op = "waitForDashboardLoad"
  /\ ret.status = "returned"
  /\ Len(dash.cards) = 2
  /\ ~CardHasContent(dash.cards[1])
  /\ CardHasContent(dash.cards[2])

\* C14: in the state in which waitForDashboardLoad returns normally, the page
\* not having changed since, isDashboardLoaded and areQuickLaunchCardsVisible
\* are both true.
C14_LoadedAfterGate ==
  [][ (/\ pc = "wdl_content"
       /\ pc' = "idle"
       /\ ret'.status = "returned")
      => (isDashboardLoaded' /\ areQuickLaunchCardsVisible') ]_vars

FillsCommitted(c) ==
  /\ Truthy(c.employeeName) =>
       \/ form.employeeName = c.employeeName.text
       \/ form.selected /\ HasSuggestion(c.employeeName.text)
  /\ Truthy(c.username) => form.username = c.username.text
  /\ Truthy(c.userRole) => form.userRole = c.userRole.text
  /\ Truthy(c.status) => form.status = c.status.text

\* C16: in searchUsers every fill or selection the criteria name is committed
\* when the validation check reads the page, and the validation check is done
\* when Search is clicked.
C16_FillsThenValidationThenClick ==
  InSearchUsers =>
    /\ (pc = "validate" \/ obs.validated) => FillsCommitted(cur.crit)
    /\ (pc = "click" \/ obs.clicked) => obs.validated

C16_Witness ==
  /\ cur.op = "searchUsers"
  /\ Truthy(cur.crit.username) /\ Truthy(cur.crit.userRole)
  /\ obs.validated /\ obs.clicked
  /\ form.username = <<"Admin">> /\ form.userRole = <<"ESS">>

\* C17: the legs of the wait raced after a submission (table visible,
\* no-records marker visible, toast visible) all carry the same timeout.
C17_RaceLegsShareTimeout ==
  \A i \in 1..Len(loc.legs) : \A j \in 1..Len(loc.legs) :
    loc.legs[i].timeout = loc.legs[j].timeout

\* C18: when searchUsers has returned after clicking Search, and while the
\* classification that follows it reads the page, the response to that
\* submission has been rendered: no request is still in flight.
C18_ReturnsAfterResponse ==
  (/\ InSearchUsers
   /\ obs.clicked
   /\ pc \in {"idle", "tiu_has", "tiu_msg"})
  => ~pending.has

\* C19: a searchUsers call that was started always ends, by returning or by
\* throwing, whatever the application does.
C19_SearchUsersTerminates ==
  (cur.op = "searchUsers" /\ pc # "idle") ~> (pc = "idle")

\* the call has returned although the application never answered
C19_Witness ==
  /\ pc = "idle"
  /\ cur.op = "searchUsers"
  /\ ret.op = "searchUsers"
  /\ ret.status = "returned"
  /\ obs.clicked
  /\ pending.has
  /\ ~toast.visible /\ ~noRecCell.visible

\* C20: for every panel state (element absent, style absent or empty, any
\* style string, attribute read failing) exactly one of isSearchPanelVisible
\* and isSearchPanelHidden is true.
C20_VisibleXorHidden ==
  /\ isSearchPanelVisible <=> ~isSearchPanelHidden
  /\ ret.op = "isSearchPanelHidden" => (ret.b <=> ~isSearchPanelVisible)
  /\ ret.op = "isSearchPanelVisible" => (ret.b <=> ~isSearchPanelHidden)

\* the attribute read fails on two matching panels
C20_Witness ==
  /\ panelCount = 2
  /\ panelStyle.has
  /\ ret.op = "isSearchPanelHidden"
  /\ ret.b
  /\ ~isSearchPanelVisible

\* C21: navigateToUserManagement throws 'Failed to navigate to Admin User
\* Management page' whenever the URL after the navigation does not contain
\* 'admin/viewSystemUsers' and returns normally otherwise; it never returns
\* normally on another page.
C21_NavigationIsVerified ==
  [][ (pc = "nav_check" /\ pc' = "idle")
      => /\ (ret'.status = "returned") <=> Includes(url', <<"admin/viewSystemUsers">>)
         /\ (ret'.status = "returned") => url' = AdminUserManagementUrl
         /\ (ret'.status # "returned") =>
              (ret'.status = "thrown" /\ ret'.msg = FailedToNavigate) ]_vars

\* the session was never opened and the request ended on the login page
C21_Witness ==
  /\ pc = "idle"
  /\ ret.op = "navigateToUserManagement"
  /\ ret.status = "thrown"
  /\ ret.msg = FailedToNavigate
  /\ url = LoginUrl
  /\ login.state # "dashboard"

\* C22: toggleBooleanSwitch(field, enabled) clicks the switch only when its
\* checked state differs from `enabled` and issues no click when they are
\* equal; after the call the switch state equals `enabled`, so a second call
\* with the same value issues no click.
C22_ToggleOnlyOnDifference ==
  [][ /\ (switch'.checked # switch.checked)
         => (pc = "tbs_click" /\ switch.checked # cur.arg.enabled)
      /\ (pc = "tbs_read" /\ switch.present)
         => ((pc' = "tbs_click") <=> (switch.checked # cur.arg.enabled))
      /\ (cur.op = "toggleBooleanSwitch" /\ pc # "idle" /\ pc' = "idle"
          /\ ret'.status = "returned")
         => switch'.checked = cur.arg.enabled ]_vars

\* the second of two calls found the switch as the first one left it and
\* returned without a click
C22_Witness ==
  /\ calls = <<"toggleBooleanSwitch", "toggleBooleanSwitch">>
  /\ pc = "idle"
  /\ ret.status = "returned"
  /\ loc.b1 = cur.arg.enabled
  /\ switch.checked = cur.arg.enabled
  /\ switch.checked

\* C23: after fillTextInput(field, v) the named field holds exactly v whatever
\* it held before, no other field's value is changed, and a repeated
\* fillTextInput(field, v) leaves v.
C23_FillSetsOnlyTheField ==
  [][ cur.op = "fillTextInput" /\ pc # "idle"
      => /\ \A f \in TextFields :
              FieldLabels[f] # cur.arg.field => ValueOf(form', f) = ValueOf(form, f)
         /\ UNCHANGED <<form.userRole, form.status, switch>>
         /\ (pc' = "idle" /\ ret'.status = "returned")
              => \A f \in TextFields :
                   FieldLabels[f] = cur.arg.field => ValueOf(form', f) = cur.arg.value ]_vars

\* the username is filled twice with a value the form never held, next to an
\* employee name that stays
C23_Witness ==
  /\ calls = <<"fillTextInput", "fillTextInput">>
  /\ pc = "idle"
  /\ ret.status = "returned"
  /\ cur.arg = [field |-> <<"Username">>, value |-> <<"nonexistentuser">>,
                enabled |-> FALSE]
  /\ form.username = <<"nonexistentuser">>
  /\ form.employeeName = <<"Admin">>

Absent(v) == ~v.has \/ v.text = <<>>

\* C24: searchUsers leaves untouched every field whose criterion is absent or
\* the empty string, so a value left in that field by an earlier search is
\* still in the form that is submitted.
C24_UnnamedFieldsKeepTheirValue ==
  [][ cur.op = "searchUsers" /\ pc # "idle"
      => /\ Absent(cur.crit.employeeName)
              => UNCHANGED <<form.employeeName, form.selected>>
         /\ Absent(cur.crit.username) => UNCHANGED form.username
         /\ Absent(cur.crit.userRole) => UNCHANGED form.userRole
         /\ Absent(cur.crit.status) => UNCHANGED form.status
         /\ (pc = "click" /\ obs'.clicked /\ pending' # pending)
              => pending'.q = form ]_vars

\* the second search names the username as '' and submits the username the
\* first search typed
C24_Witness ==
  /\ calls = <<"searchUsers", "searchUsers">>
  /\ cur.crit.username = Str(<<>>)
  /\ obs.clicked
  /\ pending.has
  /\ pending.q.username = <<"Admin">>

InPanelCall(op) == cur.op = op /\ pc # "idle"

\* C25: showSearchPanel clicks the toggle only when the panel is hidden and
\* hideSearchPanel only when it is visible; a click flipping the panel, the
\* panel is visible after showSearchPanel and hidden after hideSearchPanel,
\* and the second of two calls in a row changes nothing.
C25_ShowAndHideAreIdempotent ==
  [][ /\ (InPanelCall("showSearchPanel") /\ panelStyle' # panelStyle) => ~PanelShown
      /\ (InPanelCall("hideSearchPanel") /\ panelStyle' # panelStyle) => PanelShown
      /\ (InPanelCall("showSearchPanel") /\ pc' = "idle" /\ ret'.status = "returned")
           => PanelShown'
      /\ (InPanelCall("hideSearchPanel") /\ pc' = "idle" /\ ret'.status = "returned")
           => ~PanelShown'
      /\ (pc # "idle" /\ calls \in { <<"showSearchPanel", "showSearchPanel">>,
                                      <<"hideSearchPanel", "hideSearchPanel">> })
           => UNCHANGED panelStyle ]_vars

\* the panel was hidden by a toggle and shown again by showSearchPanel
C25_Witness ==
  /\ calls = <<"toggleSearchPanel", "showSearchPanel">>
  /\ pc = "idle"
  /\ ret.status = "returned"
  /\ panelStyle = StyleOf(<<>>)
  /\ PanelShown

\* C26: every field lookup uses exactly one lookup strategy (label, name
\* attribute or placeholder): the inputs a lookup addresses are those one
\* strategy finds, never the combination of several.
C26_OneStrategyPerLookup ==
  ret.op = "getTextInputValue"
    => getTextInputValue_Matches(cur.arg.field)
         \in { ByPlaceholder(cur.arg.field), ByName(cur.arg.field),
               FieldsLabelled(cur.arg.field) }

\* C27: the error getter and the error predicate of a field agree:
\* getEmployeeNameError() is non-empty exactly when hasEmployeeNameError() is
\* true with non-empty error text, and getUsernameError() likewise with
\* hasUsernameError().
C27_GetterAgreesWithPredicate ==
  /\ ret.op = "getEmployeeNameError"
       => ((ret.msg # <<>>)
             <=> (hasEmployeeNameError /\ fieldErr["employeeName"].text # <<>>))
  /\ ret.op = "getUsernameError"
       => ((ret.msg # <<>>)
             <=> (hasUsernameError /\ fieldErr["username"].text # <<>>))

C29_LoginAndDashboardExclusive ==
  ret.op \in {"isOnLoginPage", "isOnDashboardPage"}
    => ~(isOnLoginPage /\ isOnDashboardPage)

\* C30: the two implementations of isSearchPanelVisible (pages/base-search-page.ts
\* and unnamed/part_005) return the same boolean for every panel state and
\* every style string.
C30_VariantsAgree ==
  /\ ret.op = "isSearchPanelVisible" => ret.b = Part005_isSearchPanelVisible
  /\ ret.op = "part_005.isSearchPanelVisible" => ret.b = isSearchPanelVisible

====
